---- MODULE Spec2Model ----
(***************************************************************************)
(* Model of src/models.py: the residual encoder with a policy head and a   *)
(* value head (DualRes) and its inference entry point predict.             *)
(*                                                                         *)
(* Tensors are modelled at two levels.  Shape level: a tensor is the       *)
(* record [ok, C, H, W] of its channel count and spatial size (batch size  *)
(* is 1 throughout), or Raised when the operation producing it raised.     *)
(* Value level (the heads and predict): a tensor is a short vector of      *)
(* integer elements, with NaN standing for a non-finite float.             *)
(***************************************************************************)
EXTENDS Integers, Sequences, FiniteSets, TLC

VARIABLES
    convArgs, conv, convX, convOut,          \* Conv2dAuto: arguments, object, input size, output
    blockArgs, block, blockX, blockOut,      \* ResNetBasicBlock
    layerArgs, layer, layerX, layerOut,      \* ResNetLayer
    encArgs, encoder, encX, encOut,          \* ResNetEncoder constructed on its own
    dualArgs, model, modelX, modelOut,       \* DualRes: arguments, object, forward's input and output
    polNet, polX, polOut,                    \* PolicyNet at value level: state, input feature map, output
    training,        \* self.training of the DualRes (and of all its submodules)
    stats,           \* the running mean of every BatchNorm2d of the DualRes
    grad_enabled,    \* torch.is_grad_enabled()
    no_grad_prev,    \* the setting torch.no_grad() saved on entry
    host,            \* the machine: is CUDA available, is self.dev the host's memory
    arr,             \* the caller's numpy array passed to predict
    pc, frame,       \* predict: the line it is at, and its locals
    entry,           \* the caller's view of the state when predict was called
    outcome,         \* how the last predict call ended
    calls            \* the last two results predict returned since the model state changed

convVars  == <<convArgs, conv, convX, convOut>>
blockVars == <<blockArgs, block, blockX, blockOut>>
layerVars == <<layerArgs, layer, layerX, layerOut>>
encVars   == <<encArgs, encoder, encX, encOut>>
dualVars  == <<dualArgs, model, modelX, modelOut>>
polVars   == <<polNet, polX, polOut>>
predVars  == <<training, stats, grad_enabled, no_grad_prev, host, arr, pc, frame,
               entry, outcome, calls>>
vars == <<convVars, blockVars, layerVars, encVars, dualVars, polVars, predVars>>

(***************************************************************************)
(* Bounds of the model.                                                    *)
(***************************************************************************)
MaxKernel == 3      \* kernel sizes 1..MaxKernel per spatial dimension
MaxDim    == 3      \* input heights and widths 1..MaxDim
MaxPad    == 1      \* padding values 0..MaxPad a caller passes
MaxCh     == 2      \* channel counts 1..MaxCh
MaxN      == 3      \* block counts 1..MaxN of a ResNetLayer
MaxStages == 2      \* lengths 1..MaxStages of the blocks_sizes and deepths lists
NumEl     == 2      \* elements of a value-level tensor (the flattened feature map)
MaxClasses == 3     \* n_classes 2..MaxClasses at value level
Scale     == 64     \* value-level fixed point: the real number 1.0

Strides   == {1, 2}
Dilations == {1, 2}

(***************************************************************************)
(* Keyword arguments (Python kwargs): a set of <<name, value>> pairs.      *)
(***************************************************************************)
KwHas(kw, k) == \E p \in kw : p[1] = k

KwGet(kw, k, default) == IF KwHas(kw, k) THEN (CHOOSE p \in kw : p[1] = k)[2] ELSE default

KwDrop(kw, k) == {p \in kw : p[1] # k}

(***************************************************************************)
(* Shape-level tensors.                                                    *)
(***************************************************************************)
Raised == [ok |-> FALSE]

Tensor(c, h, w) == [ok |-> TRUE, C |-> c, H |-> h, W |-> w]

SameShape(a, b) == a.ok /\ b.ok /\ a.C = b.C /\ a.H = b.H /\ a.W = b.W

(***************************************************************************)
(* nn.Conv2d as the source uses it: the constructor stores its geometry,   *)
(* forward checks the channel count and computes                           *)
(*   out = floor((in + 2*padding - dilation*(kernel-1) - 1) / stride) + 1. *)
(***************************************************************************)
Conv2d(in_channels, out_channels, kernel_size, stride, padding, dilation) ==
    [in_channels |-> in_channels, out_channels |-> out_channels,
     kernel_size |-> kernel_size, stride |-> <<stride, stride>>,
     padding |-> <<padding, padding>>, dilation |-> <<dilation, dilation>>]

\* Conv2dAuto with the padding the caller passed left in place.
Conv2dAuto_KeepPadding(in_channels, out_channels, kernel_size, stride, padding, dilation) ==
    Conv2d(in_channels, out_channels, kernel_size, stride, padding, dilation)

\* Conv2dAuto.__init__: super().__init__(...), then padding := kernel_size // 2.
Conv2dAuto(in_channels, out_channels, kernel_size, stride, padding, dilation) ==
    [Conv2d(in_channels, out_channels, kernel_size, stride, padding, dilation)
        EXCEPT !.padding = <<kernel_size[1] \div 2, kernel_size[2] \div 2>>]

\* conv3x3 = partial(Conv2dAuto, kernel_size=3, bias=False)
conv3x3(in_channels, out_channels, stride) ==
    Conv2dAuto(in_channels, out_channels, <<3, 3>>, stride, 0, 1)

ConvSpan(c, i, n) == n + 2 * c.padding[i] - c.dilation[i] * (c.kernel_size[i] - 1) - 1

ConvOutDim(c, i, n) == (ConvSpan(c, i, n) \div c.stride[i]) + 1

ConvForward(c, x) ==
    IF ~x.ok \/ x.C # c.in_channels \/ ConvSpan(c, 1, x.H) < 0 \/ ConvSpan(c, 2, x.W) < 0
    THEN Raised
    ELSE Tensor(c.out_channels, ConvOutDim(c, 1, x.H), ConvOutDim(c, 2, x.W))

\* nn.BatchNorm2d(num_features) at shape level: the channel count must match.
BatchNorm2d(num_features, x) == IF x.ok /\ x.C = num_features THEN x ELSE Raised

(***************************************************************************)
(* Specification of Conv2dAuto: construct one, apply it to an input.       *)
(***************************************************************************)
ConvIdle ==
    /\ convArgs = [kernel_size |-> <<1, 1>>, stride |-> 1, padding |-> 0, dilation |-> 1]
    /\ conv = [built |-> FALSE]
    /\ convX = Tensor(1, 1, 1)
    /\ convOut = [done |-> FALSE]

ConvInit ==
    /\ convArgs \in [kernel_size : (1..MaxKernel) \X (1..MaxKernel), stride : Strides,
                     padding : 0..MaxPad, dilation : Dilations]
    /\ conv = [built |-> FALSE]
    /\ convX \in {Tensor(1, h, w) : h \in 1..MaxDim, w \in 1..MaxDim}
    /\ convOut = [done |-> FALSE]

Conv2dAuto_init ==
    /\ ~conv.built
    /\ conv' = [built |-> TRUE,
                self |-> Conv2dAuto(1, 1, convArgs.kernel_size, convArgs.stride,
                                    convArgs.padding, convArgs.dilation)]
    /\ UNCHANGED <<convArgs, convX, convOut>>

Conv2dAuto_forward ==
    /\ conv.built
    /\ ~convOut.done
    /\ convOut' = [done |-> TRUE, y |-> ConvForward(conv.self, convX)]
    /\ UNCHANGED <<convArgs, conv, convX>>

(***************************************************************************)
(* ResidualBlock / ResNetResidualBlock / ResNetBasicBlock.                 *)
(***************************************************************************)
expanded_channels(b) == b.out_channels * b.expansion

\* ResidualBlock.should_apply_shortcut, the base-class test the subclass overrides.
ResidualBlock_should_apply_shortcut(b) == b.in_channels # b.out_channels

\* ResNetResidualBlock.should_apply_shortcut
should_apply_shortcut(b) == b.in_channels # expanded_channels(b)

\* conv_bn(in_channels, out_channels, conv, stride=...)
conv_bn(in_channels, out_channels, stride) ==
    [conv |-> conv3x3(in_channels, out_channels, stride), bn |-> out_channels]

conv_bn_forward(m, x) == BatchNorm2d(m.bn, ConvForward(m.conv, x))

\* ResNetResidualBlock.__init__: the fields and the shortcut.
ResNetResidualBlock(in_channels, out_channels, kw) ==
    LET self == [in_channels  |-> in_channels,
                 out_channels |-> out_channels,
                 expansion    |-> KwGet(kw, "expansion", 1),
                 downsampling |-> KwGet(kw, "downsampling", 1)]
    IN  IF should_apply_shortcut(self)
        THEN [kind |-> "Sequential",
              conv |-> Conv2d(in_channels, expanded_channels(self), <<1, 1>>,
                              self.downsampling, 0, 1),
              bn   |-> expanded_channels(self)]
        ELSE [kind |-> "None"]

\* ResNetBasicBlock.__init__
ResNetBasicBlock(in_channels, out_channels, kw) ==
    LET self == [in_channels  |-> in_channels,
                 out_channels |-> out_channels,
                 expansion    |-> KwGet(kw, "expansion", 1),
                 downsampling |-> KwGet(kw, "downsampling", 1)]
    IN  [in_channels  |-> self.in_channels,
         out_channels |-> self.out_channels,
         expansion    |-> self.expansion,
         downsampling |-> self.downsampling,
         shortcut     |-> ResNetResidualBlock(in_channels, out_channels, kw),
         blocks       |-> << conv_bn(self.in_channels, self.out_channels, self.downsampling),
                             conv_bn(self.out_channels, expanded_channels(self), 1) >>]

shortcut_forward(b, x) == BatchNorm2d(b.shortcut.bn, ConvForward(b.shortcut.conv, x))

\* self.blocks(x): conv_bn, activation (shape preserving), conv_bn
blocks_forward(b, x) == conv_bn_forward(b.blocks[2], conv_bn_forward(b.blocks[1], x))

\* x += residual: in place, so residual must broadcast to the shape of x.
Broadcasts(r, x) ==
    /\ r.C = x.C \/ r.C = 1
    /\ r.H = x.H \/ r.H = 1
    /\ r.W = x.W \/ r.W = 1

iadd(x, residual) == IF x.ok /\ residual.ok /\ Broadcasts(residual, x) THEN x ELSE Raised

\* ResidualBlock.forward, with the two operands of the sum kept for inspection.
ResidualBlock_forward(b, x) ==
    LET residual == IF should_apply_shortcut(b) THEN shortcut_forward(b, x) ELSE x
        main     == blocks_forward(b, x)
    IN  [residual |-> residual, main |-> main, y |-> iadd(main, residual)]

(***************************************************************************)
(* Specification of one ResNetBasicBlock: construct it, apply it.          *)
(***************************************************************************)
BlockKwargs ==
    {e \cup d : e \in {{}} \cup {{<<"expansion", v>>} : v \in 1..2},
                d \in {{}} \cup {{<<"downsampling", v>>} : v \in Strides}}

BlockIdle ==
    /\ blockArgs = [in_channels |-> 1, out_channels |-> 1, kw |-> {}]
    /\ block = [built |-> FALSE]
    /\ blockX = Tensor(1, 1, 1)
    /\ blockOut = [done |-> FALSE]

BlockInit ==
    /\ blockArgs \in [in_channels : 1..MaxCh, out_channels : 1..MaxCh, kw : BlockKwargs]
    /\ block = [built |-> FALSE]
    /\ blockX \in {Tensor(c, h, w) : c \in 1..MaxCh, h \in 1..MaxDim, w \in 1..MaxDim}
    /\ blockOut = [done |-> FALSE]

ResNetBasicBlock_init ==
    /\ ~block.built
    /\ block' = [built |-> TRUE,
                 self |-> ResNetBasicBlock(blockArgs.in_channels, blockArgs.out_channels,
                                           blockArgs.kw)]
    /\ UNCHANGED <<blockArgs, blockX, blockOut>>

ResNetBasicBlock_forward ==
    /\ block.built
    /\ ~blockOut.done
    /\ blockOut' = [done |-> TRUE, fwd |-> ResidualBlock_forward(block.self, blockX)]
    /\ UNCHANGED <<blockArgs, block, blockX>>

(***************************************************************************)
(* ResNetLayer.                                                            *)
(***************************************************************************)
\* The class attribute ResNetBasicBlock.expansion.
ResNetBasicBlock_expansion == 1

\* A ResNetLayer whose blocks all receive the stage's downsampling value.
ResNetLayer_DownsampleAll(in_channels, out_channels, n, kw) ==
    LET downsampling == IF in_channels # out_channels THEN 2 ELSE 1
    IN  IF KwHas(kw, "downsampling")
        THEN [raised |-> TRUE]
        ELSE [raised |-> FALSE,
              blocks |-> << ResNetBasicBlock(in_channels, out_channels,
                                             kw \cup {<<"downsampling", downsampling>>}) >>
                         \o [k \in 1..(n - 1) |->
                               ResNetBasicBlock(out_channels * ResNetBasicBlock_expansion,
                                                out_channels,
                                                kw \cup {<<"downsampling", downsampling>>})]]

\* ResNetLayer.__init__.  A downsampling entry in kwargs collides with the
\* keyword the constructor passes itself, and the call raises TypeError.
ResNetLayer(in_channels, out_channels, n, kw) ==
    LET downsampling == IF in_channels # out_channels THEN 2 ELSE 1
    IN  IF KwHas(kw, "downsampling")
        THEN [raised |-> TRUE]
        ELSE [raised |-> FALSE,
              blocks |-> << ResNetBasicBlock(in_channels, out_channels,
                                             kw \cup {<<"downsampling", downsampling>>}) >>
                         \o [k \in 1..(n - 1) |->
                               ResNetBasicBlock(out_channels * ResNetBasicBlock_expansion,
                                                out_channels,
                                                kw \cup {<<"downsampling", 1>>})]]

\* nn.Sequential over the blocks: each block consumes its predecessor's output.
RECURSIVE Sequential_forward(_, _)
Sequential_forward(blocks, x) ==
    IF blocks = <<>> THEN x
    ELSE Sequential_forward(Tail(blocks), ResidualBlock_forward(Head(blocks), x).y)

\* ResNetLayer.forward
ResNetLayer_forward(l, x) == Sequential_forward(l.blocks, x)

(***************************************************************************)
(* Specification of one ResNetLayer: construct it, apply it.               *)
(***************************************************************************)
LayerIdle ==
    /\ layerArgs = [in_channels |-> 1, out_channels |-> 1, n |-> 1, kw |-> {}]
    /\ layer = [built |-> FALSE]
    /\ layerX = Tensor(1, 1, 1)
    /\ layerOut = [done |-> FALSE]

LayerInit ==
    /\ layerArgs \in [in_channels : 1..MaxCh, out_channels : 1..MaxCh, n : 1..MaxN,
                      kw : BlockKwargs]
    /\ layer = [built |-> FALSE]
    /\ layerX \in {Tensor(c, h, w) : c \in 1..MaxCh, h \in 1..MaxDim, w \in 1..MaxDim}
    /\ layerOut = [done |-> FALSE]

ResNetLayer_init ==
    /\ ~layer.built
    /\ layer' = [built |-> TRUE,
                 self |-> ResNetLayer(layerArgs.in_channels, layerArgs.out_channels,
                                      layerArgs.n, layerArgs.kw)]
    /\ UNCHANGED <<layerArgs, layerX, layerOut>>

ResNetLayer_apply ==
    /\ layer.built
    /\ ~layer.self.raised
    /\ ~layerOut.done
    /\ layerOut' = [done |-> TRUE, y |-> ResNetLayer_forward(layer.self, layerX)]
    /\ UNCHANGED <<layerArgs, layer, layerX>>

(***************************************************************************)
(* ResNetEncoder, PolicyNet, ValueNet and DualRes at shape level.          *)
(***************************************************************************)
DefaultWidth == 128     \* blocks_sizes=[128], the default of ResNetEncoder.__init__
DefaultDepth == 20      \* deepths=[20], the default of ResNetEncoder.__init__
FlattenSize  == 121     \* nn.Linear(121, ...) in both heads
HiddenSize   == 256     \* nn.Linear(121, 256) / nn.Linear(256, 1) in ValueNet
BoardSize    == 11      \* x.view(1,10,11,11) in predict
BoardPlanes  == 10      \* x.view(1,10,11,11) in predict

\* zip(blocks_sizes, blocks_sizes[1:])
in_out_block_sizes(blocks_sizes) ==
    [k \in 1..(Len(blocks_sizes) - 1) |-> <<blocks_sizes[k], blocks_sizes[k + 1]>>]

\* A ResNetEncoder that builds one stage per entry of blocks_sizes / deepths.
ResNetEncoder_AllStages(in_channels, call) ==
    LET blocks_sizes == KwGet(call, "blocks_sizes", <<DefaultWidth>>)
        deepths      == KwGet(call, "deepths", <<DefaultDepth>>)
        kwargs       == KwDrop(KwDrop(call, "blocks_sizes"), "deepths")
        stages       == [k \in 1..Len(blocks_sizes) |->
                           ResNetLayer(blocks_sizes[IF k = 1 THEN 1 ELSE k - 1],
                                       blocks_sizes[k],
                                       deepths[IF k <= Len(deepths) THEN k ELSE 1], kwargs)]
    IN  IF \E k \in 1..Len(stages) : stages[k].raised
        THEN [raised |-> TRUE]
        ELSE [raised |-> FALSE,
              blocks_sizes |-> blocks_sizes,
              gate |-> [conv |-> Conv2d(in_channels, blocks_sizes[1], <<3, 3>>, 1, 1, 1),
                        bn   |-> blocks_sizes[1]],
              in_out_block_sizes |-> in_out_block_sizes(blocks_sizes),
              blocks |-> stages]

\* ResNetEncoder.__init__, called with in_channels and the keyword arguments
\* call.  The keywords blocks_sizes and deepths bind to the parameters of that
\* name (defaults [128] and [20]); every other keyword lands in kwargs and is
\* handed on to the ResNetLayer and from there to each block.
ResNetEncoder(in_channels, call) ==
    LET blocks_sizes == KwGet(call, "blocks_sizes", <<DefaultWidth>>)
        deepths      == KwGet(call, "deepths", <<DefaultDepth>>)
        kwargs       == KwDrop(KwDrop(call, "blocks_sizes"), "deepths")
        stage        == ResNetLayer(blocks_sizes[1], blocks_sizes[1], deepths[1], kwargs)
    IN  IF stage.raised
        THEN [raised |-> TRUE]
        ELSE [raised |-> FALSE,
              blocks_sizes |-> blocks_sizes,
              gate |-> [conv |-> Conv2d(in_channels, blocks_sizes[1], <<3, 3>>, 1, 1, 1),
                        bn   |-> blocks_sizes[1]],
              in_out_block_sizes |-> in_out_block_sizes(blocks_sizes),
              blocks |-> << stage >>]

RECURSIVE ModuleList_forward(_, _)
ModuleList_forward(stages, x) ==
    IF stages = <<>> THEN x
    ELSE ModuleList_forward(Tail(stages), ResNetLayer_forward(Head(stages), x))

\* ResNetEncoder.forward: the gate (conv, bn, activation), then every stage.
ResNetEncoder_forward(e, x) ==
    ModuleList_forward(e.blocks, BatchNorm2d(e.gate.bn, ConvForward(e.gate.conv, x)))

\* nn.Linear at shape level: a vector of in_features elements to out_features.
Linear(in_features, out_features) ==
    [in_features |-> in_features, out_features |-> out_features]

Vector(n) == [ok |-> TRUE, N |-> n]

Linear_forward(fc, v) == IF v.ok /\ v.N = fc.in_features THEN Vector(fc.out_features) ELSE Raised

\* x.view(x.size(0), -1) with batch size 1
Flatten(x) == IF x.ok THEN Vector(x.C * x.H * x.W) ELSE Raised

\* PolicyNet.__init__
PolicyNet(inplanes, outplanes) ==
    [inplanes |-> inplanes, outplanes |-> outplanes,
     conv |-> Conv2d(inplanes, 1, <<1, 1>>, 1, 0, 1), bn |-> 1,
     fc |-> Linear(FlattenSize, outplanes)]

\* ValueNet.__init__
ValueNet(inplanes, outplanes) ==
    [outplanes |-> outplanes,
     conv |-> Conv2d(inplanes, 1, <<1, 1>>, 1, 0, 1), bn |-> 1,
     fc1 |-> Linear(FlattenSize, HiddenSize), fc2 |-> Linear(HiddenSize, 1)]

\* The single-channel map F.relu(self.bn(self.conv(x))) of either head.
Head_map(h, x) == BatchNorm2d(h.bn, ConvForward(h.conv, x))

\* PolicyNet.forward at shape level
PolicyNet_shape(p, x) == Linear_forward(p.fc, Flatten(Head_map(p, x)))

\* ValueNet.forward at shape level
ValueNet_shape(v, x) == Linear_forward(v.fc2, Linear_forward(v.fc1, Flatten(Head_map(v, x))))

Last(s) == s[Len(s)]

\* DualRes.__init__: the encoder is constructed with the keywords blocks_size
\* and deepths besides the caller's kwargs.
DualRes(in_channels, n_classes, cuda, tpu, blocks_size, deepths, kw) ==
    LET enc == ResNetEncoder(in_channels,
                        kw \cup {<<"blocks_size", blocks_size>>, <<"deepths", deepths>>})
    IN  IF enc.raised
        THEN [raised |-> TRUE]
        ELSE [raised |-> FALSE,
              use_cuda |-> cuda, use_tpu |-> tpu,
              encoder |-> enc,
              policy |-> PolicyNet(expanded_channels(Last(Last(enc.blocks).blocks)),
                                   n_classes),
              value  |-> ValueNet(expanded_channels(Last(Last(enc.blocks).blocks)),
                                  n_classes)]

\* DualRes.forward at shape level
DualRes_shape(m, x) ==
    LET feature == ResNetEncoder_forward(m.encoder, x)
    IN  [feature |-> feature,
         pi |-> PolicyNet_shape(m.policy, feature),
         v  |-> ValueNet_shape(m.value, feature)]

(***************************************************************************)
(* Specification of the network at shape level: a ResNetEncoder built on   *)
(* its own, or a DualRes, constructed and applied to an input.             *)
(***************************************************************************)
Lists(S, maxlen) == UNION {[1..k -> S] : k \in 1..maxlen}

EncoderKwargs == {{}, {<<"expansion", 2>>}}

Widths == {64, DefaultWidth}

Planes == {3, BoardPlanes}

EncIdle ==
    /\ encArgs = [in_channels |-> 1, blocks_sizes |-> <<1>>, deepths |-> <<1>>, kw |-> {}]
    /\ encoder = [built |-> FALSE]
    /\ encX = Tensor(1, 1, 1)
    /\ encOut = [done |-> FALSE]

DualIdle ==
    /\ dualArgs = [in_channels |-> BoardPlanes, n_classes |-> 2,
                   blocks_size |-> <<DefaultWidth>>, deepths |-> <<1>>, kw |-> {}]
    /\ model = [built |-> FALSE]
    /\ modelX = Tensor(BoardPlanes, BoardSize, BoardSize)
    /\ modelOut = [done |-> FALSE]

EncInit ==
    /\ encArgs \in [in_channels : {1, MaxCh},
                    blocks_sizes : Lists({1, MaxCh}, MaxStages),
                    deepths : Lists({1, MaxN}, MaxStages),
                    kw : EncoderKwargs]
    /\ encoder = [built |-> FALSE]
    /\ encX \in {Tensor(c, h, w) : c \in {1, MaxCh}, h \in {1, MaxDim}, w \in {1, MaxDim}}
    /\ encOut = [done |-> FALSE]

DualInit ==
    /\ dualArgs \in [in_channels : Planes, n_classes : {2, 5},
                     blocks_size : {<<w>> : w \in Widths},
                     deepths : {<<d>> : d \in {1, MaxN}},
                     kw : EncoderKwargs]
    /\ model = [built |-> FALSE]
    /\ modelX \in {Tensor(c, h, w) : c \in Planes, h \in {MaxDim, BoardSize},
                                     w \in {MaxDim, BoardSize}}
    /\ modelOut = [done |-> FALSE]

ResNetEncoder_init ==
    /\ ~encoder.built
    /\ encoder' = [built |-> TRUE,
                   self |-> ResNetEncoder(encArgs.in_channels,
                                {<<"blocks_sizes", encArgs.blocks_sizes>>,
                                 <<"deepths", encArgs.deepths>>} \cup encArgs.kw)]
    /\ UNCHANGED <<encArgs, encX, encOut>>

ResNetEncoder_apply ==
    /\ encoder.built
    /\ ~encoder.self.raised
    /\ ~encOut.done
    /\ encOut' = [done |-> TRUE, y |-> ResNetEncoder_forward(encoder.self, encX)]
    /\ UNCHANGED <<encArgs, encoder, encX>>

DualRes_init ==
    /\ ~model.built
    /\ model' = [built |-> TRUE,
                 self |-> DualRes(dualArgs.in_channels, dualArgs.n_classes, FALSE, FALSE,
                                  dualArgs.blocks_size, dualArgs.deepths, dualArgs.kw)]
    /\ UNCHANGED <<dualArgs, modelX, modelOut>>

DualRes_forward ==
    /\ model.built
    /\ ~model.self.raised
    /\ ~modelOut.done
    /\ modelOut' = [done |-> TRUE, y |-> DualRes_shape(model.self, modelX)]
    /\ UNCHANGED <<dualArgs, model, modelX>>

(***************************************************************************)
(* Value level.  A float is Fin(v), an integer, or NaN, which every        *)
(* arithmetic operation propagates.  A tensor is [buf, val]: val its       *)
(* NumEl elements, buf the storage it lives in ("arr": the caller's array, *)
(* "tmp": storage allocated by an operation).                              *)
(***************************************************************************)
NaN == [fin |-> FALSE, v |-> 0]

Fin(v) == [fin |-> TRUE, v |-> v]

VAdd(a, b) == IF a.fin /\ b.fin THEN Fin(a.v + b.v) ELSE NaN

VSub(a, b) == IF a.fin /\ b.fin THEN Fin(a.v - b.v) ELSE NaN

VMul(a, b) == IF a.fin /\ b.fin THEN Fin(a.v * b.v) ELSE NaN

\* F.relu on one element: relu(NaN) is NaN.
VRelu(a) == IF a.fin THEN Fin(IF a.v > 0 THEN a.v ELSE 0) ELSE NaN

RECURSIVE VSum(_)
VSum(xs) == IF xs = <<>> THEN Fin(0) ELSE VAdd(Head(xs), VSum(Tail(xs)))

VMean(xs) == LET t == VSum(xs) IN IF t.fin THEN Fin(t.v \div Len(xs)) ELSE NaN

AllFin(xs) == \A i \in 1..Len(xs) : xs[i].fin

Fresh(val) == [buf |-> "tmp", val |-> val]

\* Each layer below is written as an operator on an evaluated input t and
\* applied through CHOOSE y \in {...(t) : t \in {x}}, which evaluates the
\* input x once however often the layer reads it.

Conv_of(w, b, t) == Fresh([i \in 1..Len(t.val) |-> VAdd(VMul(Fin(w), t.val[i]), Fin(b))])

\* A convolution with one scalar weight and bias per element; a new tensor.
Conv_v(w, b, x) == CHOOSE y \in {Conv_of(w, b, t) : t \in {x}} : TRUE

Relu_of(t) == Fresh([i \in 1..Len(t.val) |-> VRelu(t.val[i])])

\* F.relu / nn.ReLU (not in place); a new tensor.
Relu_v(x) == CHOOSE y \in {Relu_of(t) : t \in {x}} : TRUE

BatchNorm_of(is_training, rm, t, mean) ==
    IF is_training
    THEN [y  |-> Fresh([i \in 1..Len(t.val) |-> VSub(t.val[i], mean)]),
          rm |-> IF rm.fin /\ mean.fin THEN Fin((rm.v + mean.v) \div 2) ELSE NaN]
    ELSE [y  |-> Fresh([i \in 1..Len(t.val) |-> VSub(t.val[i], rm)]),
          rm |-> rm]

\* nn.BatchNorm2d with running mean rm.  Training mode normalises by the
\* statistics of the batch and moves the running mean towards them; evaluation
\* mode normalises by the running mean and leaves it alone.
BatchNorm_v(is_training, rm, x) ==
    CHOOSE r \in {BatchNorm_of(is_training, r0, t, mean) :
                    r0 \in {rm}, t \in {x}, mean \in {VMean(x.val)}} : TRUE

Linear_of(W, b, t) ==
    [j \in 1..Len(W) |-> VAdd(VSum([i \in 1..Len(t) |-> VMul(Fin(W[j][i]), t[i])]), Fin(b[j]))]

\* nn.Linear with weight W (a row per output) and bias b.
Linear_v(W, b, z) == CHOOSE y \in {Linear_of(W, b, t) : t \in {z}} : TRUE

Pow2(n) == IF n <= 0 THEN 1 ELSE 2 ^ n

RECURSIVE IntSum(_)
IntSum(xs) == IF xs = <<>> THEN 0 ELSE Head(xs) + IntSum(Tail(xs))

MinOf(xs) == CHOOSE m \in {xs[i] : i \in 1..Len(xs)} : \A i \in 1..Len(xs) : m <= xs[i]

LogSoftmax_exp_dim0_of(t) ==
    IF ~AllFin(t) THEN [j \in 1..Len(t) |-> NaN]
    ELSE [j \in 1..Len(t) |-> Fin(Scale)]

\* LogSoftmax over the batch dimension (dim=0) of a batch of one, then exp:
\* every entry is exp(0) = 1.0.
LogSoftmax_exp_dim0(logits) ==
    CHOOSE y \in {LogSoftmax_exp_dim0_of(t) : t \in {logits}} : TRUE

LogSoftmax_exp_of(t) ==
    IF ~AllFin(t) THEN [j \in 1..Len(t) |-> NaN]
    ELSE [j \in 1..Len(t) |->
            Fin((Scale * Pow2(t[j].v - MinOf([k \in 1..Len(t) |-> t[k].v])))
                \div IntSum([k \in 1..Len(t) |->
                               Pow2(t[k].v - MinOf([n \in 1..Len(t) |-> t[n].v]))]))]

\* self.logsoftmax(x).exp() with nn.LogSoftmax(dim=1): exp(x_j - logsumexp(x)),
\* in base 2 and fixed point; a NaN logit makes every entry NaN.
LogSoftmax_exp(logits) == CHOOSE y \in {LogSoftmax_exp_of(t) : t \in {logits}} : TRUE

\* The learned parameters of a head: any values will do, a few are drawn.
FcWeight(n, seed) == [j \in 1..n |-> [i \in 1..NumEl |-> ((j + i + seed) % 3) - 1]]

FcBias(n) == [j \in 1..n |-> j % 2]

PolicyNet_of(p, bn) ==
    CHOOSE r \in {[logits |-> logits, probas |-> LogSoftmax_exp(logits), bn_rm |-> bn.rm] :
                    logits \in {Linear_v(p.fc_W, p.fc_b, Relu_v(bn.y).val)}} : TRUE

\* PolicyNet.forward at value level:
\*   x = F.relu(self.bn(self.conv(x))); x = self.fc(x.view(...)); logsoftmax, exp
PolicyNet_forward(p, is_training, x) ==
    CHOOSE r \in {PolicyNet_of(p, bn) :
                    bn \in {BatchNorm_v(is_training, p.bn_rm,
                                        Conv_v(p.conv_w, p.conv_b, x))}} : TRUE

(***************************************************************************)
(* Specification of one PolicyNet at value level: apply it to a feature    *)
(* map, in training or evaluation mode.                                    *)
(***************************************************************************)
Floats == {NaN, Fin(-1), Fin(0), Fin(2)}

PolicyParams ==
    {[conv_w |-> w, conv_b |-> b, bn_rm |-> Fin(rm), fc_W |-> FcWeight(n, seed),
      fc_b |-> FcBias(n)] :
        w \in {-1, 1}, b \in {0, 1}, rm \in {0, 1}, n \in 2..MaxClasses, seed \in 0..2}

PolIdle ==
    /\ polNet = [training |-> FALSE,
                 p |-> [conv_w |-> 1, conv_b |-> 0, bn_rm |-> Fin(0),
                        fc_W |-> FcWeight(2, 0), fc_b |-> FcBias(2)]]
    /\ polX = Fresh([i \in 1..NumEl |-> Fin(0)])
    /\ polOut = [done |-> FALSE]

PolInit ==
    /\ polNet \in [training : BOOLEAN, p : PolicyParams]
    /\ polX \in {Fresh(val) : val \in [1..NumEl -> Floats]}
    /\ polOut = [done |-> FALSE]

\* nn.Module.train / nn.Module.eval called on the head.
PolicyNet_mode ==
    /\ ~polOut.done
    /\ polNet' = [polNet EXCEPT !.training = ~polNet.training]
    /\ UNCHANGED <<polX, polOut>>

PolicyNet_apply ==
    /\ ~polOut.done
    /\ \E r \in {PolicyNet_forward(polNet.p, polNet.training, polX)} :
       /\ polOut' = [done |-> TRUE, logits |-> r.logits, probas |-> r.probas]
       /\ polNet' = [polNet EXCEPT !.p.bn_rm = r.bn_rm]
    /\ UNCHANGED polX

(***************************************************************************)
(* DualRes at value level.  stats holds one running mean per BatchNorm2d:  *)
(* the gate's, three per block (the two of self.blocks and the shortcut's) *)
(* and one per head.  Every forward threads stats and the contents of the  *)
(* caller's array through the layers: a layer in training mode changes the *)
(* former, an in-place operation on storage "arr" changes the latter.      *)
(***************************************************************************)
ResidualBlock_of(b, st, residual, a, c, arrVal) ==
    [y   |-> [buf |-> c.y.buf,
              val |-> [i \in 1..Len(c.y.val) |-> VAdd(c.y.val[i], residual.y.val[i])]],
     st  |-> [a |-> a.rm, b |-> c.rm,
              s |-> IF should_apply_shortcut(b) THEN residual.rm ELSE st.s],
     arr |-> IF c.y.buf = "arr"
             THEN [i \in 1..Len(c.y.val) |-> VAdd(c.y.val[i], residual.y.val[i])]
             ELSE arrVal]

\* ResidualBlock.forward at value level.  residual aliases x when the shortcut
\* is not applied; a and c are the two conv_bn of self.blocks; x += residual
\* writes into the storage of self.blocks(x).
ResidualBlock_v(b, is_training, st, x, arrVal) ==
    CHOOSE r \in
        {ResidualBlock_of(b, st, residual, a, c, arrVal) :
            residual \in {IF should_apply_shortcut(b)
                          THEN BatchNorm_v(is_training, st.s, Conv_v(1, 0, x))
                          ELSE [y |-> x, rm |-> st.s]},
            a \in {BatchNorm_v(is_training, st.a, Conv_v(1, 0, x))},
            c \in {BatchNorm_v(is_training, st.b,
                               Conv_v(1, 0, Relu_v(BatchNorm_v(is_training, st.a,
                                                               Conv_v(1, 0, x)).y)))}} : TRUE

RECURSIVE Sequential_v(_, _, _, _, _)
Sequential_v(blocks, is_training, sts, x, arrVal) ==
    IF blocks = <<>> THEN [y |-> x, sts |-> <<>>, arr |-> arrVal]
    ELSE CHOOSE out \in
            {[y |-> rest.y, sts |-> <<r.st>> \o rest.sts, arr |-> rest.arr] :
                rest \in {Sequential_v(Tail(blocks), is_training, Tail(sts), r.y, r.arr) :
                            r \in {ResidualBlock_v(Head(blocks), is_training, Head(sts),
                                                   x, arrVal)}},
                r \in {ResidualBlock_v(Head(blocks), is_training, Head(sts), x, arrVal)}} :
            TRUE

\* ResNetEncoder.forward at value level (the encoder has its single stage).
ResNetEncoder_v(e, is_training, st, x, arrVal) ==
    CHOOSE out \in
        {[y |-> r.y, gate |-> g.rm, blocks |-> r.sts, arr |-> r.arr] :
            r \in {Sequential_v(e.blocks[1].blocks, is_training, st.blocks, Relu_v(g.y),
                                arrVal) :
                     g \in {BatchNorm_v(is_training, st.gate, Conv_v(1, 0, x))}},
            g \in {BatchNorm_v(is_training, st.gate, Conv_v(1, 0, x))}} : TRUE

\* torch.tanh in fixed point: a squashing function with values inside (-1, 1).
Tanh_v(a) ==
    IF a.fin THEN Fin((Scale * a.v) \div ((IF a.v >= 0 THEN a.v ELSE -a.v) + 1)) ELSE NaN

ValueNet_of(bn) ==
    CHOOSE r \in {[winning |-> Tanh_v(o[1]), bn_rm |-> bn.rm] :
                    o \in {Linear_v(<<[i \in 1..NumEl |-> 1]>>, <<-1>>,
                                    Relu_of([val |-> Linear_v(FcWeight(NumEl, 1),
                                                              FcBias(NumEl),
                                                              Relu_v(bn.y).val)]).val)}} :
        TRUE

\* ValueNet.forward at value level:
\*   x = F.relu(self.bn(self.conv(x))); x = F.relu(self.fc1(x.view(...)));
\*   winning = torch.tanh(self.fc2(x))
ValueNet_forward(is_training, rm, x) ==
    CHOOSE r \in {ValueNet_of(bn) :
                    bn \in {BatchNorm_v(is_training, rm, Conv_v(1, 0, x))}} : TRUE

DualRes_of(m, is_training, st, enc) ==
    CHOOSE r \in
        {[pi    |-> pol.probas,
          v     |-> val.winning,
          stats |-> [gate |-> enc.gate, blocks |-> enc.blocks,
                     policy |-> pol.bn_rm, value |-> val.bn_rm],
          arr   |-> enc.arr] :
            pol \in {PolicyNet_forward([conv_w |-> 1, conv_b |-> 0, bn_rm |-> st.policy,
                                        fc_W |-> FcWeight(m.policy.outplanes, 0),
                                        fc_b |-> FcBias(m.policy.outplanes)],
                                       is_training, enc.y)},
            val \in {ValueNet_forward(is_training, st.value, enc.y)}} : TRUE

\* DualRes.forward at value level:
\*   x = self.encoder(x); pi = self.policy(x); v = self.value(x)
DualRes_v(m, is_training, st, x, arrVal) ==
    CHOOSE r \in {DualRes_of(m, is_training, st, enc) :
                    enc \in {ResNetEncoder_v(m.encoder, is_training, st, x, arrVal)}} : TRUE

\* Whether forward raises: a shape mismatch in some layer for the
\* (1,10,11,11) input, or an input tensor that is not float32.
ForwardRaises(m, x) ==
    LET r == DualRes_shape(m, Tensor(BoardPlanes, BoardSize, BoardSize))
    IN  ~r.pi.ok \/ ~r.v.ok \/ x.dtype # "float32"

(***************************************************************************)
(* Specification of predict.  The model has been constructed; the caller   *)
(* calls predict with an array, switches the model to training mode, or    *)
(* calls forward itself, one call at a time.  predict runs line by line.   *)
(***************************************************************************)
\* The running means of a freshly constructed model.
InitialStats(m) ==
    [gate   |-> Fin(0),
     blocks |-> [k \in 1..Len(m.encoder.blocks[1].blocks) |->
                   [a |-> Fin(0), b |-> Fin(0), s |-> Fin(0)]],
     policy |-> Fin(0),
     value  |-> Fin(0)]

ArrayVals == {[i \in 1..NumEl |-> Fin(0)], [i \in 1..NumEl |-> Fin(2 * i)]}

\* The arrays a caller passes: contents, dtype, and whether the array has the
\* 10*11*11 elements x.view(1,10,11,11) needs.
Arrays == [val : ArrayVals, dtype : {"float32", "float64"}, numel_ok : BOOLEAN]

\* The device options of DualRes.__init__: neither, cuda, or tpu.
Devices == {<<FALSE, FALSE>>, <<TRUE, FALSE>>, <<FALSE, TRUE>>}

Models ==
    {DualRes(c, 2, dv[1], dv[2], <<DefaultWidth>>, <<d>>, {}) :
        c \in Planes, dv \in Devices, d \in 1..2}

\* The machines a model runs on: CUDA may be missing where use_cuda asks for it,
\* and self.dev may be the host's own memory where use_tpu is set.
Hosts(m) ==
    {h \in [cuda_available : BOOLEAN, dev_is_host : BOOLEAN] :
        /\ ~m.use_cuda => ~h.cuda_available
        /\ ~m.use_tpu => h.dev_is_host}

NoFrame == [x |-> [buf |-> "tmp", val |-> <<>>, dtype |-> "float32"], exc |-> FALSE,
            pi |-> <<>>, v |-> NaN]

PredIdle ==
    /\ training = TRUE
    /\ stats = [gate |-> Fin(0), blocks |-> <<>>, policy |-> Fin(0), value |-> Fin(0)]
    /\ grad_enabled = TRUE
    /\ no_grad_prev = TRUE
    /\ host = [cuda_available |-> FALSE, dev_is_host |-> TRUE]
    /\ arr = [val |-> [i \in 1..NumEl |-> Fin(0)], dtype |-> "float32", numel_ok |-> TRUE]
    /\ pc = "idle"
    /\ frame = NoFrame
    /\ entry = [training |-> TRUE, grad_enabled |-> TRUE, arr |-> <<>>,
                stats |-> [gate |-> Fin(0), blocks |-> <<>>, policy |-> Fin(0),
                           value |-> Fin(0)]]
    /\ outcome = "none"
    /\ calls = <<>>

PredInit ==
    /\ model \in {[built |-> TRUE, self |-> m] : m \in Models}
    /\ dualArgs = [in_channels |-> model.self.encoder.gate.conv.in_channels,
                   n_classes |-> 2, blocks_size |-> <<DefaultWidth>>,
                   deepths |-> <<Len(model.self.encoder.blocks[1].blocks)>>, kw |-> {}]
    /\ modelX = Tensor(BoardPlanes, BoardSize, BoardSize)
    /\ modelOut = [done |-> FALSE]
    /\ training = TRUE
    /\ stats = InitialStats(model.self)
    /\ grad_enabled \in BOOLEAN
    /\ no_grad_prev = TRUE
    /\ host \in Hosts(model.self)
    /\ arr = [val |-> [i \in 1..NumEl |-> Fin(0)], dtype |-> "float32", numel_ok |-> TRUE]
    /\ pc = "idle"
    /\ frame = NoFrame
    /\ entry = [training |-> TRUE, grad_enabled |-> grad_enabled, arr |-> arr.val,
                stats |-> stats]
    /\ outcome = "none"
    /\ calls = <<>>

\* Lines 171-176: the array converted to the tensor forward is given.
\* torch.from_numpy shares the array's storage and keeps its dtype, .to(dev) of a
\* tensor already on dev returns it as it is; astype, FloatTensor and .cuda()
\* each make a copy.
Converted(m, h, a) ==
    LET t == IF m.use_tpu
             THEN [buf |-> IF h.dev_is_host THEN "arr" ELSE "tmp", val |-> a.val,
                   dtype |-> a.dtype]
             ELSE [buf |-> "tmp", val |-> a.val, dtype |-> "float32"]
    IN  IF m.use_cuda THEN [t EXCEPT !.buf = "tmp"] ELSE t

\* Lines 170-177: predict is called with array a; conversion, .cuda() and
\* view raise before the mode is touched.
predict_call ==
    /\ pc = "idle"
    /\ \E a \in Arrays :
         /\ arr' = a
         /\ entry' = [training |-> training, grad_enabled |-> grad_enabled,
                      arr |-> a.val, stats |-> stats]
         /\ IF (model.self.use_cuda /\ ~host.cuda_available) \/ ~a.numel_ok
            THEN /\ outcome' = "raised"
                 /\ UNCHANGED <<pc, frame>>
            ELSE /\ outcome' = "none"
                 /\ pc' = "eval"
                 /\ frame' = [NoFrame EXCEPT !.x = Converted(model.self, host, a)]
    /\ UNCHANGED <<training, stats, grad_enabled, no_grad_prev, host, calls>>

\* predict with self.eval() left out.
predict_eval_omitted ==
    /\ pc = "eval"
    /\ pc' = "enter"
    /\ UNCHANGED <<training, stats, grad_enabled, no_grad_prev, host, arr, frame, entry,
                   outcome, calls>>

\* predict calling self.train() where it calls self.eval().
predict_eval_train ==
    /\ pc = "eval"
    /\ training' = TRUE
    /\ pc' = "enter"
    /\ UNCHANGED <<stats, grad_enabled, no_grad_prev, host, arr, frame, entry, outcome, calls>>

\* Line 178: self.eval()
predict_eval ==
    /\ pc = "eval"
    /\ training' = FALSE
    /\ pc' = "enter"
    /\ UNCHANGED <<stats, grad_enabled, no_grad_prev, host, arr, frame, entry, outcome, calls>>

\* Line 179: entering torch.no_grad() saves the setting and disables tracking.
no_grad_enter ==
    /\ pc = "enter"
    /\ no_grad_prev' = grad_enabled
    /\ grad_enabled' = FALSE
    /\ pc' = "forward"
    /\ UNCHANGED <<training, stats, host, arr, frame, entry, outcome, calls>>

\* Line 180: pi, v = self.forward(x), or the exception forward raises.
predict_forward ==
    /\ pc = "forward"
    /\ IF ForwardRaises(model.self, frame.x)
       THEN /\ frame' = [frame EXCEPT !.exc = TRUE]
            /\ UNCHANGED <<stats, arr>>
       ELSE \E r \in {DualRes_v(model.self, training, stats, frame.x, arr.val)} :
            /\ frame' = [frame EXCEPT !.pi = r.pi, !.v = r.v]
            /\ stats' = r.stats
            /\ arr' = [arr EXCEPT !.val = r.arr]
    /\ pc' = "exit"
    /\ UNCHANGED <<training, grad_enabled, no_grad_prev, host, entry, outcome, calls>>

\* A with-block whose exit is skipped when the body raises.
no_grad_exit_on_success ==
    /\ pc = "exit"
    /\ grad_enabled' = IF frame.exc THEN grad_enabled ELSE no_grad_prev
    /\ IF frame.exc
       THEN pc' = "idle" /\ outcome' = "raised in forward" /\ frame' = NoFrame
       ELSE pc' = "return" /\ UNCHANGED <<outcome, frame>>
    /\ UNCHANGED <<training, stats, no_grad_prev, host, arr, entry, calls>>

\* Line 179: leaving the with-block, normally or by the exception, restores the
\* saved setting; the exception then leaves predict.
no_grad_exit ==
    /\ pc = "exit"
    /\ grad_enabled' = no_grad_prev
    /\ IF frame.exc
       THEN pc' = "idle" /\ outcome' = "raised in forward" /\ frame' = NoFrame
       ELSE pc' = "return" /\ UNCHANGED <<outcome, frame>>
    /\ UNCHANGED <<training, stats, no_grad_prev, host, arr, entry, calls>>

\* Line 181: the results are copied out and returned.
predict_return ==
    /\ pc = "return"
    /\ pc' = "idle"
    /\ outcome' = "returned"
    /\ calls' = (IF Len(calls) = 2 THEN Tail(calls) ELSE calls)
                   \o << [arr |-> entry.arr, was_training |-> entry.training,
                          pi |-> frame.pi, v |-> frame.v] >>
    /\ frame' = NoFrame
    /\ UNCHANGED <<training, stats, grad_enabled, no_grad_prev, host, arr, entry>>

\* The caller puts the model in training mode (nn.Module.train).
train ==
    /\ pc = "idle"
    /\ ~training
    /\ training' = TRUE
    /\ outcome' = "none"
    /\ UNCHANGED <<stats, grad_enabled, no_grad_prev, host, arr, pc, frame, entry, calls>>

\* The caller runs DualRes.forward itself, as a training loop does, on a batch
\* with the contents of some array; in training mode this moves the running
\* means, and results predict returned before are no longer comparable.
forward ==
    /\ pc = "idle"
    /\ training
    /\ ~ForwardRaises(model.self, [dtype |-> "float32"])
    /\ \E val \in ArrayVals :
       \E r \in {DualRes_v(model.self, training, stats, Fresh(val), arr.val)} :
         /\ stats' = r.stats
         /\ calls' = IF r.stats = stats THEN calls ELSE <<>>
    /\ outcome' = "none"
    /\ UNCHANGED <<training, grad_enabled, no_grad_prev, host, arr, pc, frame, entry>>

(***************************************************************************)
(* The specifications.                                                     *)
(***************************************************************************)
NextConv ==
    \/ Conv2dAuto_init /\ UNCHANGED <<blockVars, layerVars, encVars, dualVars, polVars, predVars>>
    \/ Conv2dAuto_forward
         /\ UNCHANGED <<blockVars, layerVars, encVars, dualVars, polVars, predVars>>

InitConv == ConvInit /\ BlockIdle /\ LayerIdle /\ EncIdle /\ DualIdle /\ PolIdle /\ PredIdle

SpecConv == InitConv /\ [][NextConv]_vars

NextBlock ==
    \/ ResNetBasicBlock_init
         /\ UNCHANGED <<convVars, layerVars, encVars, dualVars, polVars, predVars>>
    \/ ResNetBasicBlock_forward
         /\ UNCHANGED <<convVars, layerVars, encVars, dualVars, polVars, predVars>>

InitBlock == ConvIdle /\ BlockInit /\ LayerIdle /\ EncIdle /\ DualIdle /\ PolIdle /\ PredIdle

SpecBlock == InitBlock /\ [][NextBlock]_vars

NextLayer ==
    \/ ResNetLayer_init /\ UNCHANGED <<convVars, blockVars, encVars, dualVars, polVars, predVars>>
    \/ ResNetLayer_apply
         /\ UNCHANGED <<convVars, blockVars, encVars, dualVars, polVars, predVars>>

InitLayer == ConvIdle /\ BlockIdle /\ LayerInit /\ EncIdle /\ DualIdle /\ PolIdle /\ PredIdle

SpecLayer == InitLayer /\ [][NextLayer]_vars

\* Either a ResNetEncoder is constructed on its own, or a DualRes is.
InitNet ==
    /\ ConvIdle /\ BlockIdle /\ LayerIdle /\ PolIdle /\ PredIdle
    /\ (EncInit /\ DualIdle) \/ (EncIdle /\ DualInit)

NextNet ==
    \/ ResNetEncoder_init
         /\ UNCHANGED <<convVars, blockVars, layerVars, dualVars, polVars, predVars>>
    \/ ResNetEncoder_apply
         /\ UNCHANGED <<convVars, blockVars, layerVars, dualVars, polVars, predVars>>
    \/ DualRes_init /\ UNCHANGED <<convVars, blockVars, layerVars, encVars, polVars, predVars>>
    \/ DualRes_forward
         /\ UNCHANGED <<convVars, blockVars, layerVars, encVars, polVars, predVars>>

SpecNet == InitNet /\ [][NextNet]_vars

NextPolicy ==
    \/ PolicyNet_mode
         /\ UNCHANGED <<convVars, blockVars, layerVars, encVars, dualVars, predVars>>
    \/ PolicyNet_apply
         /\ UNCHANGED <<convVars, blockVars, layerVars, encVars, dualVars, predVars>>

InitPolicy == ConvIdle /\ BlockIdle /\ LayerIdle /\ EncIdle /\ DualIdle /\ PolInit /\ PredIdle

SpecPolicy == InitPolicy /\ [][NextPolicy]_vars

others == <<convVars, blockVars, layerVars, encVars, dualVars, polVars>>

NextPredict ==
    \/ predict_call /\ UNCHANGED others
    \/ predict_eval /\ UNCHANGED others
    \/ no_grad_enter /\ UNCHANGED others
    \/ predict_forward /\ UNCHANGED others
    \/ no_grad_exit /\ UNCHANGED others
    \/ predict_return /\ UNCHANGED others
    \/ train /\ UNCHANGED others
    \/ forward /\ UNCHANGED others

InitPredict == ConvIdle /\ BlockIdle /\ LayerIdle /\ EncIdle /\ PolIdle /\ PredInit

SpecPredict == InitPredict /\ [][NextPredict]_vars

(***************************************************************************)
(* C5 (as amended).  Conv2dAuto's padding is floor(k/2) in each spatial    *)
(* dimension whatever padding the caller passed; with stride 1 and         *)
(* dilation 1 the output size equals the input size in a dimension whose   *)
(* kernel size is odd and exceeds it by one where the kernel size is even. *)
(***************************************************************************)
C5_PaddingAndSize ==
    conv.built =>
        /\ \A i \in 1..2 : conv.self.padding[i] = convArgs.kernel_size[i] \div 2
        /\ (convOut.done /\ convArgs.stride = 1 /\ convArgs.dilation = 1) =>
              /\ convOut.y.ok
              /\ convOut.y.H = convX.H + (IF convArgs.kernel_size[1] % 2 = 1 THEN 0 ELSE 1)
              /\ convOut.y.W = convX.W + (IF convArgs.kernel_size[2] % 2 = 1 THEN 0 ELSE 1)

\* C5 witness: a 2x3 kernel built with a caller padding other than floor(k/2),
\* applied with stride 1: the height grows by one, the width is preserved.
C5_Witness ==
    /\ convOut.done
    /\ convArgs.kernel_size = <<2, 3>>
    /\ convArgs.stride = 1 /\ convArgs.dilation = 1 /\ convArgs.padding = 0
    /\ conv.self.padding = <<1, 1>>
    /\ convOut.y.ok /\ convOut.y.H = convX.H + 1 /\ convOut.y.W = convX.W

\* C5 as stated: padding floor(k/2) for all kernel sizes, and for stride 1
\* the output spatial size equals the input spatial size.
C5_Original ==
    conv.built =>
        /\ \A i \in 1..2 : conv.self.padding[i] = convArgs.kernel_size[i] \div 2
        /\ (convOut.done /\ convArgs.stride = 1) =>
              /\ convOut.y.ok
              /\ convOut.y.H = convX.H
              /\ convOut.y.W = convX.W

(***************************************************************************)
(* C7.  For every block configuration (in_channels, out_channels,          *)
(* expansion, downsampling in {1,2}, input height and width) the shortcut  *)
(* is the identity exactly when in_channels = out_channels*expansion and   *)
(* otherwise a 1x1 projection to out_channels*expansion channels with      *)
(* stride = downsampling, and in both cases the residual and the           *)
(* main-branch output that forward sums have identical shape.              *)
(***************************************************************************)
C7_ShortcutAndShapes ==
    block.built =>
        LET b == block.self IN
        /\ (b.shortcut.kind = "None") <=> (b.in_channels = b.out_channels * b.expansion)
        /\ b.shortcut.kind = "Sequential" =>
              /\ b.shortcut.conv.kernel_size = <<1, 1>>
              /\ b.shortcut.conv.out_channels = b.out_channels * b.expansion
              /\ b.shortcut.conv.stride = <<b.downsampling, b.downsampling>>
        /\ (blockOut.done /\ blockX.C = b.in_channels) =>
              SameShape(blockOut.fwd.residual, blockOut.fwd.main)

(***************************************************************************)
(* C8.  In a ResNetLayer built with n >= 1 blocks, stride 2 is used by the *)
(* first block only and only when in_channels # out_channels; blocks 2..n  *)
(* use stride 1.  Hence the output height and width of the layer equal     *)
(* ceil(input/2) when in_channels # out_channels and the input height and  *)
(* width when in_channels = out_channels.                                  *)
(***************************************************************************)
\* The strides of every convolution of a block.
BlockStrides(b) ==
    {b.blocks[1].conv.stride, b.blocks[2].conv.stride}
        \cup (IF b.shortcut.kind = "Sequential" THEN {b.shortcut.conv.stride} ELSE {})

CeilHalf(n) == (n + 1) \div 2

C8_StageStride ==
    (layer.built /\ ~layer.self.raised) =>
        LET blocks == layer.self.blocks
            differ == layerArgs.in_channels # layerArgs.out_channels
        IN
        /\ blocks[1].downsampling = (IF differ THEN 2 ELSE 1)
        /\ <<2, 2>> \in BlockStrides(blocks[1]) <=> differ
        /\ \A k \in 2..Len(blocks) :
              blocks[k].downsampling = 1 /\ BlockStrides(blocks[k]) = {<<1, 1>>}
        /\ (layerOut.done /\ layerOut.y.ok) =>
              /\ layerOut.y.H = (IF differ THEN CeilHalf(layerX.H) ELSE layerX.H)
              /\ layerOut.y.W = (IF differ THEN CeilHalf(layerX.W) ELSE layerX.W)
        \* with the blocks' own expansion (1) the layer yields an output for
        \* every input of in_channels channels
        /\ (layerOut.done /\ KwGet(layerArgs.kw, "expansion", 1) = 1
              /\ layerX.C = layerArgs.in_channels) => layerOut.y.ok

\* C8 witness: a layer of at least two blocks that changes the channel count,
\* applied to an input of odd height 3, yields height 2 = ceil(3/2).
C8_Witness ==
    /\ layerOut.done /\ layerOut.y.ok
    /\ layerArgs.in_channels # layerArgs.out_channels
    /\ layerArgs.n >= 2
    /\ layerX.H = 3 /\ layerX.W = 2
    /\ layerOut.y.H = 2 /\ layerOut.y.W = 1

(***************************************************************************)
(* C9.  A ResNetLayer given n >= 1 constructs exactly n blocks, and for    *)
(* every expansion factor the blocks are built with, each block k in 2..n  *)
(* declares an input channel count equal to the channel count output by    *)
(* block k-1 (out_channels*expansion) and a nominal width out_channels.    *)
(***************************************************************************)
C9_ChannelConsistent ==
    (layer.built /\ ~layer.self.raised) =>
        LET blocks == layer.self.blocks IN
        /\ Len(blocks) = layerArgs.n
        /\ \A k \in 2..Len(blocks) :
              /\ blocks[k].in_channels = expanded_channels(blocks[k - 1])
              /\ blocks[k].out_channels = layerArgs.out_channels

(***************************************************************************)
(* C1.  Constructing DualRes(in_channels, n_classes, blocks_size=[w],      *)
(* deepths=[d]) produces an encoder whose gate output width and whose      *)
(* final block's expanded channel count equal w (expansion=1), and the     *)
(* policy and value heads are constructed with that input channel count w. *)
(***************************************************************************)
C1_BlocksSizeSetsWidth ==
    (model.built /\ ~model.self.raised /\ dualArgs.kw = {}) =>
        LET w == dualArgs.blocks_size[1]
            m == model.self
        IN
        /\ m.encoder.gate.conv.out_channels = w
        /\ expanded_channels(Last(Last(m.encoder.blocks).blocks)) = w
        /\ m.policy.inplanes = w /\ m.policy.conv.in_channels = w
        /\ m.value.conv.in_channels = w

ProbaSum(probas) == IntSum([j \in 1..Len(probas) |-> probas[j].v])

IsDistribution(probas) ==
    /\ \A j \in 1..Len(probas) : probas[j].fin /\ probas[j].v >= 0
    /\ ProbaSum(probas) <= Scale
    /\ ProbaSum(probas) >= Scale - Len(probas)

C6_Distribution ==
    polOut.done =>
        /\ Len(polOut.probas) = Len(polNet.p.fc_W)
        /\ AllFin(polOut.logits) => IsDistribution(polOut.probas)
        /\ ~AllFin(polX.val) => \A j \in 1..Len(polOut.probas) : ~polOut.probas[j].fin

\* C6 witness: a finite feature map gave unequal finite logits and a
\* distribution with unequal entries.
C6_Witness ==
    /\ polOut.done
    /\ AllFin(polX.val) /\ AllFin(polOut.logits)
    /\ polOut.logits[1] # polOut.logits[2]
    /\ polOut.probas[1].v > polOut.probas[2].v /\ polOut.probas[2].v > 0
    /\ IsDistribution(polOut.probas)

\* C6 as stated: the output is a probability distribution for any input.
C6_Original ==
    polOut.done => IsDistribution(polOut.probas)

(***************************************************************************)
(* C2.  Gradient tracking is suspended for the forward pass inside predict *)
(* and restored to its prior setting on every exit path: it is untouched   *)
(* before the with-block is entered, off while forward runs, and back at   *)
(* the setting of the call's entry after a normal return and after forward *)
(* raised, over any sequence of predict calls.                             *)
(***************************************************************************)
C2_GradRestored ==
    /\ pc \in {"eval", "enter"} => grad_enabled = entry.grad_enabled
    /\ pc \in {"forward", "exit"} => ~grad_enabled /\ no_grad_prev = entry.grad_enabled
    /\ pc = "return" => grad_enabled = entry.grad_enabled
    /\ (pc = "idle" /\ outcome # "none") => grad_enabled = entry.grad_enabled

\* C2 witness: predict was called with tracking on, forward raised, and
\* tracking is on again after the call.
C2_Witness ==
    /\ pc = "idle" /\ outcome = "raised in forward"
    /\ entry.grad_enabled /\ grad_enabled

(***************************************************************************)
(* C3.  Whenever a predict call returns without raising, the model is in   *)
(* evaluation mode afterwards, whatever mode it was in before the call:    *)
(* predict switches to evaluation before forward runs and never switches   *)
(* back to training.                                                       *)
(***************************************************************************)
C3_EvalAfterPredict ==
    /\ pc \in {"enter", "forward", "exit", "return"} => ~training
    /\ (pc = "idle" /\ outcome = "returned") => ~training

\* C3 witness: a call made in training mode has returned and left the model
\* in evaluation mode.
C3_Witness ==
    /\ pc = "idle" /\ outcome = "returned"
    /\ entry.training /\ ~training

(***************************************************************************)
(* C4.  Calling predict twice with the same input array returns identical  *)
(* outputs, also when the model was in training mode before the first      *)
(* call: predict changes no running statistic, only the mode flag, and     *)
(* does not modify the caller's array.                                     *)
(***************************************************************************)
C4_PredictIdempotent ==
    /\ (pc # "idle" \/ outcome # "none") => stats = entry.stats /\ arr.val = entry.arr
    /\ (Len(calls) = 2 /\ calls[1].arr = calls[2].arr) =>
          calls[1].pi = calls[2].pi /\ calls[1].v = calls[2].v

\* C4 witness: two calls with the same array, the first made in training mode
\* and through a tensor sharing the array's storage, returned the same
\* distribution (not a uniform one) and value.
C4_Witness ==
    /\ Len(calls) = 2 /\ calls[1].arr = calls[2].arr
    /\ calls[1].was_training
    /\ model.self.use_tpu /\ host.dev_is_host
    /\ calls[1].pi = calls[2].pi /\ calls[1].v = calls[2].v
    /\ calls[1].pi[1] # calls[1].pi[2]
    /\ stats # InitialStats(model.self)

====
